---- MODULE Spec2Model ----
(***************************************************************************)
(* Booking lifecycle and e-signature workflow of HomeServe Pro.            *)
(*                                                                         *)
(* The MongoDB collections bookings, signatures and notifications are the  *)
(* state.  Every HTTP handler is a process in a request slot: one step per *)
(* operation it performs on bookings or signatures (find, insert,          *)
(* update_one), so that two handlers and the periodic sweep interleave     *)
(* exactly as the blind update_one calls of the models allow.  The insert  *)
(* of a notification, which no handler reads back, belongs to the step of  *)
(* the write it follows.  datetime.utcnow() is the variable now, counted   *)
(* in periods of six hours (the 48-hour signature timeout is eight units,  *)
(* the 12-hour reminder window two, the 6-hour reminder dedupe one).       *)
(***************************************************************************)
EXTENDS Integers, Sequences, FiniteSets, Bags, TLC

\* ---------------------------------------------------------------- bounds
MaxNow      == 3      \* the clock stops advancing after this many days
MaxRequests == 4      \* requests that get past their checks in one behaviour
MaxSweeps   == 2      \* sweeps whose query returns a booking in one behaviour
MaxPeriods  == 18     \* the clock of the monitor stops after this many periods

\* ------------------------------------------------------ program constants
SIGNATURE_TIMEOUT_HOURS == 48

Hours(h) == h \div 6                \* a duration in clock units

NULL   == 0 - 1                     \* Python None in a numeric field
NoHash == <<>>                      \* Python None in signature_hash

STATUS_PENDING     == "pending"
STATUS_ACCEPTED    == "accepted"
STATUS_REJECTED    == "rejected"
STATUS_IN_PROGRESS == "in_progress"
STATUS_COMPLETED   == "completed"
STATUS_VERIFIED    == "verified"
STATUS_CANCELLED   == "cancelled"

VALID_STATUSES ==
    {STATUS_PENDING, STATUS_ACCEPTED, STATUS_REJECTED, STATUS_IN_PROGRESS,
     STATUS_COMPLETED, STATUS_VERIFIED, STATUS_CANCELLED}

\* ------------------------------------------------- users, vendors, services
\* The users collection: two customers, two vendor users, one super admin.
Customers   == {1, 2}
VendorUsers == {3, 4}
Admins      == {5}
UserIds     == Customers \cup VendorUsers \cup Admins

\* User.find_by_id: is there a users document with this _id?
UserExists(id) == id \in UserIds

Pin560001 == <<"5", "6", "0", "0", "0", "1">>
PinShort  == <<"5", "6", "0">>

\* The vendors collection as seeded (the seed command and the super admin
\* write onboarding_status = approved and leave the approval flags at the
\* defaults of Vendor.create; custom_services counts the pushed services).
\* _id values are unique per collection only: the
\* profile of vendor user 3 carries the same _id as its user document, the
\* profile of vendor user 4 a different one (6).  Both layouts are documents
\* the store accepts; the handlers of vendor.py compare booking.vendor_id
\* with the profile _id, those of signature.py with the user _id.
VendorIds == {3, 6}

Vendors ==
    [v \in VendorIds |->
        IF v = 3
        THEN [user_id |-> 3, onboarding_status |-> "approved",
              availability |-> TRUE, services |-> {"Plumbing"},
              pincodes |-> {Pin560001}, ratings |-> 4, completed_jobs |-> 10,
              is_approved |-> FALSE, documents_verified |-> FALSE,
              payouts_enabled |-> FALSE, earnings |-> 0,
              custom_services |-> 0]
        ELSE [user_id |-> 4, onboarding_status |-> "approved",
              availability |-> TRUE, services |-> {"Plumbing"},
              pincodes |-> {}, ratings |-> 4, completed_jobs |-> 20,
              is_approved |-> FALSE, documents_verified |-> FALSE,
              payouts_enabled |-> FALSE, earnings |-> 0,
              custom_services |-> 0]]

\* The services collection: one active service.
ServiceIds == {"svc1"}
ServiceName(sid) == "Plumbing"
ServiceBasePrice(sid) == 50         \* base_price, the amount of a booking

\* ----------------------------------------------------------------- text
REQUIRED_CONFIRMATION ==
    <<"I"," ","c","o","n","f","i","r","m"," ","t","h","e"," ","s","e","r","v","i","c","e"," ","m","e","t"," ","m","y"," ","e","x","p","e","c","t","a","t","i","o","n","s">>
TextOk ==
    <<"o","k">>
\* the phrase in capitals, with words before and after it
TextUpper ==
    <<"Y","E","S",","," ","I"," ","C","O","N","F","I","R","M"," ","T","H","E"," ","S","E","R","V","I","C","E"," ","M","E","T"," ","M","Y"," ","E","X","P","E","C","T","A","T","I","O","N","S","!">>

\* the confirmation texts a client sends, by index
Texts   == <<TextOk, TextUpper>>
TextIds == 1..Len(Texts)

UPPER == <<"A","B","C","D","E","F","G","H","I","J","K","L","M","N","O","P","Q","R","S","T","U","V","W","X","Y","Z">>
LOWER == <<"a","b","c","d","e","f","g","h","i","j","k","l","m","n","o","p","q","r","s","t","u","v","w","x","y","z">>

\* str.lower() on one character
LowerChar(c) ==
    IF \E i \in 1..Len(UPPER) : UPPER[i] = c
    THEN LOWER[CHOOSE i \in 1..Len(UPPER) : UPPER[i] = c]
    ELSE c

\* str.lower()
Lower(str) == [i \in 1..Len(str) |-> LowerChar(str[i])]

\* Python's  needle in hay  on strings
Contains(hay, needle) ==
    \E i \in 1..(Len(hay) - Len(needle) + 1) :
        SubSeq(hay, i, i + Len(needle) - 1) = needle

\* the guard with the comparison made case-sensitive
ConfirmationAcceptedCaseSensitive(txt) ==
    Contains(txt, REQUIRED_CONFIRMATION)

\* required_confirmation.lower() not in confirmation_text.lower()
ConfirmationAccepted(txt) ==
    Contains(Lower(txt), Lower(REQUIRED_CONFIRMATION))

\* the outcome of the guard for each text a client sends
TextAccepted == [t \in TextIds |-> ConfirmationAccepted(Texts[t])]

\* -------------------------------------------------------------- documents
BookingIds == {101}                 \* the bookings that requests name

\* a booking of another customer, which no request of the model names
SeededBookingIds == {102}

AllBookingIds == BookingIds \cup SeededBookingIds

\* a bookings document (the fields the lifecycle and the workflow use)
NoBooking ==
    [exists |-> FALSE, id |-> NULL, customer_id |-> NULL, vendor_id |-> NULL,
     status |-> "none", signature_status |-> "none", signature_hash |-> NoHash,
     signature_requested_at |-> NULL, signature_submitted_at |-> NULL,
     signature_timeout_at |-> NULL, signature_escalated |-> FALSE,
     amount |-> NULL]

VARIABLES
    now,            \* datetime.utcnow(), in periods of six hours
    bookings,       \* bookings collection: id -> document
    signatures,     \* signatures collection, in insertion order
    notifications,  \* notifications collection, a bag of documents
    slots,          \* the HTTP requests in flight
    sweeps,         \* the invocations of check_signature_timeouts
    nreq,           \* requests so far that got past their checks
    nsweep,         \* sweeps so far whose query returned a booking
    vendors,        \* vendors collection: id -> document
    audit_logs,     \* audit_logs collection, the entries tagged escalation
    allocation      \* the last call of allocate_vendor: its arguments and result

vars == <<now, bookings, signatures, notifications, slots, sweeps, nreq, nsweep,
          vendors, audit_logs, allocation>>

Slots  == {1, 2}
Sweeps == {1, 2}

\* a request slot: the handler, its position, its arguments and its locals
IdleSlot ==
    [pc |-> "idle", op |-> "none", uid |-> NULL, bid |-> NULL, text |-> NULL,
     vendor |-> NULL, pincode |-> <<>>, earnings |-> NULL, hash |-> NoHash,
     resp |-> "none"]

\* a sweep: its position, the bookings its query returned, its return value
IdleSweep ==
    [pc |-> "idle", todo |-> <<>>, escalated_count |-> 0, reminder_count |-> 0]

\* allocate_vendor has not been called
NoAllocation == [vendors |-> <<>>, pincode |-> <<>>, best |-> NULL]

Init ==
    /\ now = 0
    /\ bookings = [b \in AllBookingIds |-> NoBooking]
    /\ signatures = <<>>
    /\ notifications = EmptyBag
    /\ slots = [s \in Slots |-> IdleSlot]
    /\ sweeps = [w \in Sweeps |-> IdleSweep]
    /\ nreq = 0
    /\ nsweep = 0
    /\ vendors = Vendors
    /\ audit_logs = EmptyBag
    /\ allocation = NoAllocation

\* --------------------------------------------------------- model helpers
\* Vendor.find_by_user_id: the profile _id, or NULL
VendorFindByUserId(u) ==
    IF \E v \in VendorIds : vendors[v].user_id = u
    THEN CHOOSE v \in VendorIds : vendors[v].user_id = u
    ELSE NULL

\* Booking.find_by_id
BookingFindById(bid) ==
    IF bid \in AllBookingIds THEN bookings[bid] ELSE NoBooking

\* update_one(...).modified_count > 0 for a $set that always carries
\* updated_at = utcnow(): true when a document matches and a field changes;
\* when every field is rewritten with its old value the result depends on
\* whether updated_at (millisecond resolution) changed, so both outcomes occur.
Modified(old, new) ==
    IF ~old.exists THEN {FALSE}
    ELSE IF old # new THEN {TRUE} ELSE BOOLEAN

\* Booking.update: a $set on the document with this _id, whatever its state
BookingUpdate(bid, new) ==
    IF bookings[bid].exists THEN [bookings EXCEPT ![bid] = new] ELSE bookings

\* Notification.create
Notify(bag, user, type, bid) ==
    bag (+) SetToBag({[user_id |-> user, type |-> type, booking_id |-> bid]})

\* a request as it arrives
Request(op, uid, bid, text) ==
    [IdleSlot EXCEPT !.op = op, !.uid = uid, !.bid = bid, !.text = text]

\* the handler returns: the response stays in the slot until it is picked up
Respond(r, resp) == [r EXCEPT !.pc = "done", !.resp = resp]

\* the handler goes on to its next database operation
Goto(r, pc) == [r EXCEPT !.pc = pc]

\* A response is delivered before anything else happens: delivery touches
\* nothing but the slot, so this fixes the order of independent steps only.
NoResponsePending == \A s \in Slots : slots[s].pc # "done"

\* a request arrives at the first free slot (the slots are interchangeable);
\* the step of the handler that follows runs up to and including its first
\* read of a booking
Arrive(s) ==
    /\ NoResponsePending
    /\ slots[s].pc = "idle"
    /\ \A s2 \in Slots : s2 < s => slots[s2].pc # "idle"
    /\ nreq < MaxRequests

\* the slot after that step; a request turned away by a check leaves no trace
\* once its response is delivered, so nreq counts the others
Handle(s, r) ==
    /\ slots' = [slots EXCEPT ![s] = r]
    /\ nreq' = IF r.pc = "done" /\ r.resp \notin {"created", "reassigned"}
                THEN nreq ELSE nreq + 1

\* the handler in slot s is at position pc
At(s, op, pc) ==
    /\ NoResponsePending
    /\ slots[s].op = op
    /\ slots[s].pc = pc

\* the passage of six hours, between the requests and the sweeps: neither
\* takes as long as a period of the clock
TickSixHours ==
    /\ \A s \in Slots : slots[s].pc = "idle"
    /\ \A w \in Sweeps : sweeps[w].pc = "idle"
    /\ now < MaxPeriods
    /\ now' = now + Hours(6)
    /\ UNCHANGED <<bookings, signatures, notifications, slots, sweeps, nreq, nsweep>>
    /\ UNCHANGED <<vendors, audit_logs, allocation>>

\* the passage of a day
Tick ==
    /\ NoResponsePending
    /\ now < MaxNow * Hours(24)
    /\ now' = now + Hours(24)
    /\ UNCHANGED <<bookings, signatures, notifications, slots, sweeps, nreq, nsweep>>
    /\ UNCHANGED <<vendors, audit_logs, allocation>>

\* the client picks up the response
Return(s) ==
    /\ slots[s].pc = "done"
    /\ slots' = [slots EXCEPT ![s] = IdleSlot]
    /\ UNCHANGED <<now, bookings, signatures, notifications, sweeps, nreq, nsweep>>
    /\ UNCHANGED <<vendors, audit_logs, allocation>>

\* ============================================================ create_booking
Digits == {"0", "1", "2", "3", "4", "5", "6", "7", "8", "9"}

\* str.isdigit()
IsDigit(str) == Len(str) > 0 /\ \A i \in 1..Len(str) : str[i] \in Digits

\* the request bodies of create_booking
BookingCustomers == {1}
PincodeInputs == {Pin560001, PinShort}
ServiceInputs == ServiceIds
VendorInputs  == VendorIds \cup {NULL}          \* NULL: no vendor_id sent

\* the query without its availability condition
FindByServiceAnyAvailability(service_name, pincode) ==
    SelectSeq(<<3, 6>>,
        LAMBDA v : /\ vendors[v].onboarding_status = "approved"
                   /\ service_name \in vendors[v].services
                   /\ (Len(pincode) > 0 => pincode \in vendors[v].pincodes))

\* Vendor.find_available_by_service, in natural (insertion) order
FindAvailableByService(service_name, pincode) ==
    SelectSeq(<<3, 6>>,
        LAMBDA v : /\ vendors[v].onboarding_status = "approved"
                   /\ vendors[v].availability
                   /\ service_name \in vendors[v].services
                   /\ (Len(pincode) > 0 => pincode \in vendors[v].pincodes))

\* the key of max() in create_booking, compared as Python compares tuples
KeyLess(a, b) ==
    \/ vendors[a].ratings < vendors[b].ratings
    \/ /\ vendors[a].ratings = vendors[b].ratings
       /\ vendors[a].completed_jobs < vendors[b].completed_jobs

\* max(available_vendors, key=...): the first element that no other exceeds
MaxVendor(cands) ==
    LET best == CHOOSE i \in 1..Len(cands) :
                    /\ \A j \in 1..Len(cands) : ~KeyLess(cands[i], cands[j])
                    /\ \A j \in 1..(i - 1) : KeyLess(cands[j], cands[i])
    IN cands[best]

\* create_booking as it would be if a booking needed a vendor: refused when
\* the request names none and no vendor is available
CreateBookingChecksNeedsVendor(sid, pincode, vendor_id) ==
    IF ~(IsDigit(pincode) /\ Len(pincode) = 6)
    THEN [error |-> "bad_pincode", vendor |-> NULL]
    ELSE IF vendor_id # NULL
    THEN [error |-> "none", vendor |-> vendor_id]
    ELSE IF Len(FindAvailableByService(ServiceName(sid), pincode)) > 0
    THEN [error |-> "none",
          vendor |-> MaxVendor(FindAvailableByService(ServiceName(sid), pincode))]
    ELSE [error |-> "no_vendor_available", vendor |-> NULL]

\* validation and vendor selection of create_booking: the error, or the
\* vendor_id of the new document
CreateBookingChecks(sid, pincode, vendor_id) ==
    LET cands == FindAvailableByService(ServiceName(sid), pincode)
    IN  IF ~(IsDigit(pincode) /\ Len(pincode) = 6)
        THEN [error |-> "bad_pincode", vendor |-> NULL]
        ELSE IF sid \notin ServiceIds
        THEN [error |-> "service_not_found", vendor |-> NULL]
        ELSE IF vendor_id # NULL
        THEN IF vendor_id \notin VendorIds
             THEN [error |-> "vendor_not_found", vendor |-> NULL]
             ELSE IF vendors[vendor_id].onboarding_status # "approved"
             THEN [error |-> "vendor_not_approved", vendor |-> NULL]
             ELSE IF ~vendors[vendor_id].availability
             THEN [error |-> "vendor_unavailable", vendor |-> NULL]
             ELSE IF /\ vendors[vendor_id].pincodes # {}
                     /\ pincode \notin vendors[vendor_id].pincodes
             THEN [error |-> "vendor_pincode", vendor |-> NULL]
             ELSE IF ServiceName(sid) \notin vendors[vendor_id].services
             THEN [error |-> "vendor_service", vendor |-> NULL]
             ELSE [error |-> "none", vendor |-> vendor_id]
        ELSE IF Len(cands) > 0
             THEN [error |-> "none", vendor |-> MaxVendor(cands)]
             ELSE [error |-> "none", vendor |-> NULL]

\* Booking.create: the defaults of a new document
NewBooking(id, customer, vendor) ==
    [exists |-> TRUE, id |-> id, customer_id |-> customer, vendor_id |-> vendor,
     status |-> STATUS_PENDING, signature_status |-> "unsigned",
     signature_hash |-> NoHash, signature_requested_at |-> NULL,
     signature_submitted_at |-> NULL, signature_timeout_at |-> NULL,
     signature_escalated |-> FALSE, amount |-> ServiceBasePrice("svc1")]

\* create_booking: the checks read services and vendors only, which nothing
\* here changes, so they and the insert are one step
create_booking(s) ==
    /\ Arrive(s)
    /\ \E id \in BookingIds : ~bookings[id].exists
    /\ \E u \in BookingCustomers, sid \in ServiceInputs, pin \in PincodeInputs,
          v \in VendorInputs :
        LET c  == CreateBookingChecks(sid, pin, v)
            id == CHOOSE i \in BookingIds : ~bookings[i].exists
            r  == [Request("create_booking", u, NULL, NULL)
                      EXCEPT !.vendor = v, !.pincode = pin]
        IN  IF c.error # "none"
            THEN /\ Handle(s, Respond(r, c.error))
                 /\ UNCHANGED <<bookings, notifications>>
            ELSE /\ bookings' = [bookings EXCEPT ![id] = NewBooking(id, u, c.vendor)]
                 /\ notifications' =
                       IF c.vendor # NULL
                       THEN Notify(notifications, vendors[c.vendor].user_id,
                                   "booking_created", id)
                       ELSE notifications
                 /\ Handle(s, [Respond(r, "created") EXCEPT !.bid = id])
    /\ UNCHANGED <<now, signatures, sweeps, nsweep>>
    /\ UNCHANGED <<vendors, audit_logs, allocation>>
\* ======================================================= vendor allocation
\* the smaller of two numbers
Min(a, b) == IF a < b THEN a ELSE b

\* VendorAllocationEngine.calculate_vendor_score, in thousandths:
\* rating / 5 * 0.4, 0.3 when available, 0.2 when the vendor serves the
\* pincode of the booking, min(completed_jobs / 100, 1) * 0.1
calculate_vendor_score(v, pincode) ==
    80 * vendors[v].ratings
    + (IF vendors[v].availability THEN 300 ELSE 0)
    + (IF pincode \in vendors[v].pincodes THEN 200 ELSE 0)
    + Min(vendors[v].completed_jobs, 100)

\* vendor_scores.sort(key=score, reverse=True)[0]: the sort is stable, so the
\* first element of the list among those with the highest score
AllocateVendor(vs, pincode) ==
    IF vs = <<>> THEN NULL
    ELSE vs[CHOOSE i \in 1..Len(vs) :
               /\ \A j \in 1..Len(vs) :
                     calculate_vendor_score(vs[j], pincode)
                        <= calculate_vendor_score(vs[i], pincode)
               /\ \A j \in 1..(i - 1) :
                     calculate_vendor_score(vs[j], pincode)
                        < calculate_vendor_score(vs[i], pincode)]

\* the lists of vendors a caller passes, in any order
CandidateLists == {<<>>, <<3>>, <<6>>, <<3, 6>>, <<6, 3>>}

\* a call of allocate_vendor(vendors, booking)
allocate_vendor ==
    /\ \E vs \in CandidateLists, pin \in PincodeInputs :
          allocation' = [vendors |-> vs, pincode |-> pin,
                         best |-> AllocateVendor(vs, pin)]
    /\ UNCHANGED <<now, bookings, signatures, notifications, slots, sweeps,
                   nreq, nsweep, vendors, audit_logs>>

\* ======================================================= vendor onboarding
\* the user_id of the notification verify_profile creates ('admin')
AdminInbox == 0

\* the vendor ids in the path of approve and reject
OnboardInputs == VendorIds \cup {9}

\* verify_profile: the vendor submits documents; Vendor.update, whatever the
\* state of the profile, then the notification for the admins
verify_profile(s) ==
    /\ Arrive(s)
    /\ \E u \in VendorUsers, documents \in BOOLEAN :
        LET r      == Request("verify_profile", u, NULL, NULL)
            vendor == VendorFindByUserId(u)
        IN  IF vendor = NULL
            THEN /\ Handle(s, Respond(r, "vendor_not_found"))
                 /\ UNCHANGED <<vendors, notifications>>
            ELSE IF ~documents
            THEN /\ Handle(s, Respond(r, "documents_required"))
                 /\ UNCHANGED <<vendors, notifications>>
            ELSE /\ vendors' = [vendors EXCEPT ![vendor].onboarding_status =
                                                   "pending_verification"]
                 /\ notifications' = Notify(notifications, AdminInbox,
                                            "vendor_verification_request", NULL)
                 /\ slots' = [slots EXCEPT ![s] = Respond(r, "ok")]
                 /\ nreq' = nreq + 1
    /\ UNCHANGED <<now, bookings, signatures, sweeps, nsweep>>
    /\ UNCHANGED <<audit_logs, allocation>>

\* the checks of approve_vendor and reject_vendor: the vendor exists and is
\* pending approval; reject_vendor also wants a reason
OnboardChecks(r, reason) ==
    IF r.vendor \notin VendorIds THEN Respond(r, "not_found")
    ELSE IF vendors[r.vendor].onboarding_status
                \notin {"pending", "pending_verification"}
    THEN Respond(r, "not_pending")
    ELSE IF ~reason THEN Respond(r, "reason_required")
    ELSE Goto(r, "write")

\* the write with is_approved alone
OnboardWriteApprovedOnly(s, status, flag, ntype) ==
    LET v == slots[s].vendor
    IN  /\ vendors' = [vendors EXCEPT ![v] =
                          [@ EXCEPT !.onboarding_status = status,
                                    !.is_approved = flag]]
        /\ notifications' = Notify(notifications, vendors[v].user_id,
                                   ntype, NULL)
        /\ slots' = [slots EXCEPT ![s] = Respond(slots[s], "ok")]
        /\ UNCHANGED <<now, bookings, signatures, sweeps, nreq, nsweep>>
        /\ UNCHANGED <<audit_logs, allocation>>

\* Vendor.update of approve_vendor and reject_vendor (one $set, its result
\* ignored), then the notification of the vendor's user
OnboardWrite(s, status, flag, ntype) ==
    LET v == slots[s].vendor
    IN  /\ vendors' = [vendors EXCEPT ![v] =
                          [@ EXCEPT !.onboarding_status = status,
                                    !.is_approved = flag,
                                    !.documents_verified = flag,
                                    !.payouts_enabled = flag]]
        /\ notifications' = Notify(notifications, vendors[v].user_id,
                                   ntype, NULL)
        /\ slots' = [slots EXCEPT ![s] = Respond(slots[s], "ok")]
        /\ UNCHANGED <<now, bookings, signatures, sweeps, nreq, nsweep>>
        /\ UNCHANGED <<audit_logs, allocation>>

approve_vendor(s) ==
    /\ Arrive(s)
    /\ \E m \in Admins, vendor_id \in OnboardInputs :
        Handle(s, OnboardChecks(
                     [Request("approve_vendor", m, NULL, NULL)
                         EXCEPT !.vendor = vendor_id], TRUE))
    /\ UNCHANGED <<now, bookings, signatures, notifications, sweeps, nsweep>>
    /\ UNCHANGED <<vendors, audit_logs, allocation>>

approve_vendor_write(s) ==
    /\ At(s, "approve_vendor", "write")
    /\ OnboardWrite(s, "active", TRUE, "vendor_approved")

reject_vendor(s) ==
    /\ Arrive(s)
    /\ \E m \in Admins, vendor_id \in OnboardInputs, reason \in BOOLEAN :
        Handle(s, OnboardChecks(
                     [Request("reject_vendor", m, NULL, NULL)
                         EXCEPT !.vendor = vendor_id], reason))
    /\ UNCHANGED <<now, bookings, signatures, notifications, sweeps, nsweep>>
    /\ UNCHANGED <<vendors, audit_logs, allocation>>

reject_vendor_write(s) ==
    /\ At(s, "reject_vendor", "write")
    /\ OnboardWrite(s, "rejected", FALSE, "vendor_rejected")

\* create_custom_service: the profile of the caller, its is_approved flag,
\* the required fields of the body
create_custom_service(s) ==
    /\ Arrive(s)
    /\ \E u \in VendorUsers, fields \in BOOLEAN :
        LET r      == Request("create_custom_service", u, NULL, NULL)
            vendor == VendorFindByUserId(u)
        IN  Handle(s,
                IF vendor = NULL THEN Respond(r, "vendor_not_found")
                ELSE IF ~vendors[vendor].is_approved THEN Respond(r, "forbidden")
                ELSE IF ~fields THEN Respond(r, "missing_field")
                ELSE Goto([r EXCEPT !.vendor = vendor], "write"))
    /\ UNCHANGED <<now, bookings, signatures, notifications, sweeps, nsweep>>
    /\ UNCHANGED <<vendors, audit_logs, allocation>>

\* update_one with $push custom_services: the document always changes
create_custom_service_write(s) ==
    /\ At(s, "create_custom_service", "write")
    /\ vendors' = [vendors EXCEPT ![slots[s].vendor].custom_services = @ + 1]
    /\ slots' = [slots EXCEPT ![s] = Respond(slots[s], "service_created")]
    /\ UNCHANGED <<now, bookings, signatures, notifications, sweeps, nreq,
                   nsweep, audit_logs, allocation>>

\* the checks of create_booking_with_vendor: pincode, vendor, service
CreateBookingWithVendorChecks(sid, pincode, vendor_id) ==
    IF ~(IsDigit(pincode) /\ Len(pincode) = 6)
    THEN [error |-> "bad_pincode", vendor |-> NULL]
    ELSE IF vendor_id \notin VendorIds
    THEN [error |-> "vendor_not_found", vendor |-> NULL]
    ELSE IF vendors[vendor_id].onboarding_status # "approved"
    THEN [error |-> "vendor_not_approved", vendor |-> NULL]
    ELSE IF ~vendors[vendor_id].availability
    THEN [error |-> "vendor_unavailable", vendor |-> NULL]
    ELSE IF sid \notin ServiceIds
    THEN [error |-> "service_not_found", vendor |-> NULL]
    ELSE IF /\ vendors[vendor_id].pincodes # {}
            /\ pincode \notin vendors[vendor_id].pincodes
    THEN [error |-> "vendor_pincode", vendor |-> NULL]
    ELSE IF ServiceName(sid) \notin vendors[vendor_id].services
    THEN [error |-> "vendor_service", vendor |-> NULL]
    ELSE [error |-> "none", vendor |-> vendor_id]

\* create_booking_with_vendor: as create_booking with a vendor the customer
\* chose; the vendor's user is notified
create_booking_with_vendor(s) ==
    /\ Arrive(s)
    /\ \E id \in BookingIds : ~bookings[id].exists
    /\ \E u \in BookingCustomers, sid \in ServiceInputs, pin \in PincodeInputs,
          v \in OnboardInputs :
        LET c  == CreateBookingWithVendorChecks(sid, pin, v)
            id == CHOOSE i \in BookingIds : ~bookings[i].exists
            r  == [Request("create_booking_with_vendor", u, NULL, NULL)
                      EXCEPT !.vendor = v, !.pincode = pin]
        IN  IF c.error # "none"
            THEN /\ Handle(s, Respond(r, c.error))
                 /\ UNCHANGED <<bookings, notifications>>
            ELSE /\ bookings' = [bookings EXCEPT ![id] = NewBooking(id, u, c.vendor)]
                 /\ notifications' = Notify(notifications,
                                            vendors[c.vendor].user_id,
                                            "booking_created", id)
                 /\ Handle(s, [Respond(r, "created") EXCEPT !.bid = id])
    /\ UNCHANGED <<now, signatures, sweeps, nsweep>>
    /\ UNCHANGED <<vendors, audit_logs, allocation>>

\* ========================================================= vendor handlers
\* the checks shared by accept, reject, start and complete of vendor.py:
\* the vendor profile of the caller, the booking, its owner, its status
VendorChecks(r, allowed) ==
    LET vendor  == VendorFindByUserId(r.uid)
        booking == BookingFindById(r.bid)
    IN  IF vendor = NULL THEN Respond(r, "vendor_not_found")
        ELSE IF ~booking.exists THEN Respond(r, "not_found")
        ELSE IF booking.vendor_id # vendor THEN Respond(r, "forbidden")
        ELSE IF booking.status \notin allowed THEN Respond(r, "invalid_state")
        ELSE Goto(r, "write")

\* the request of a vendor handler and its checks
VendorRequest(s, op, allowed) ==
    /\ Arrive(s)
    /\ \E u \in VendorUsers, bid \in BookingIds :
        Handle(s,
                     VendorChecks(Request(op, u, bid, NULL), allowed))
    /\ UNCHANGED <<now, bookings, signatures, notifications, sweeps, nsweep>>
    /\ UNCHANGED <<vendors, audit_logs, allocation>>

\* Booking.update_status and what a handler does with its result: when the
\* write reports a modification the customer is notified (ntype) and the
\* handler answers ok, otherwise it answers failed
StatusWrite(s, status, ntype, ok) ==
    LET bid == slots[s].bid
        old == bookings[bid]
        new == [old EXCEPT !.status = status]
    IN  /\ bookings' = BookingUpdate(bid, new)
        /\ \E success \in Modified(old, new) :
            IF success
            THEN /\ notifications' =
                       IF ntype # "none" /\ UserExists(old.customer_id)
                       THEN Notify(notifications, old.customer_id, ntype, bid)
                       ELSE notifications
                 /\ slots' = [slots EXCEPT ![s] = Respond(slots[s], ok)]
            ELSE /\ notifications' = notifications
                 /\ slots' = [slots EXCEPT ![s] = Respond(slots[s], "failed")]
        /\ UNCHANGED <<now, signatures, sweeps, nreq, nsweep>>
        /\ UNCHANGED <<vendors, audit_logs, allocation>>

accept_booking(s) ==
    /\ VendorRequest(s, "accept_booking", {STATUS_PENDING})

accept_booking_write(s) ==
    /\ At(s, "accept_booking", "write")
    /\ StatusWrite(s, STATUS_ACCEPTED, "booking_accepted", "ok")

reject_booking(s) ==
    /\ VendorRequest(s, "reject_booking", {STATUS_PENDING, STATUS_ACCEPTED})

reject_booking_write(s) ==
    /\ At(s, "reject_booking", "write")
    /\ StatusWrite(s, STATUS_REJECTED, "booking_rejected", "ok")

start_booking(s) ==
    /\ VendorRequest(s, "start_booking", {STATUS_ACCEPTED})

\* after the write the handler reads Notification.TYPE_BOOKING_STARTED, which
\* the class does not define: no notification, and the answer is an error
start_booking_write(s) ==
    /\ At(s, "start_booking", "write")
    /\ StatusWrite(s, STATUS_IN_PROGRESS, "none", "error")

\* complete_booking for one of the bookings bids: the checks, which keep the
\* vendor document they read (its _id and its earnings)
CompleteBooking(s, bids) ==
    /\ Arrive(s)
    /\ \E u \in VendorUsers, bid \in bids :
        LET r == VendorChecks(Request("complete_booking", u, bid, NULL),
                              {STATUS_IN_PROGRESS})
        IN  Handle(s, IF r.pc = "write"
                      THEN [r EXCEPT !.vendor = VendorFindByUserId(u),
                                     !.earnings =
                                        vendors[VendorFindByUserId(u)].earnings]
                      ELSE r)
    /\ UNCHANGED <<now, bookings, signatures, notifications, sweeps, nsweep>>
    /\ UNCHANGED <<vendors, audit_logs, allocation>>

complete_booking(s) ==
    /\ CompleteBooking(s, BookingIds)

\* Booking.update_status(booking_id, completed): the handler goes on when the
\* write reports a modification and answers failed otherwise
complete_booking_write(s) ==
    /\ At(s, "complete_booking", "write")
    /\ LET bid == slots[s].bid
           old == bookings[bid]
           new == [old EXCEPT !.status = STATUS_COMPLETED]
       IN  /\ bookings' = BookingUpdate(bid, new)
           /\ \E success \in Modified(old, new) :
                 slots' = [slots EXCEPT ![s] =
                              IF success THEN Goto(slots[s], "earnings")
                              ELSE Respond(slots[s], "failed")]
    /\ UNCHANGED <<now, signatures, notifications, sweeps, nreq, nsweep>>
    /\ UNCHANGED <<vendors, audit_logs, allocation>>

\* Vendor.update(vendor_id, {earnings: current_earnings + amount}) with the
\* earnings read before the status check, then the notification of the
\* customer; after it the handler calls AuditLog.log with keywords it does
\* not take: the answer is an error
complete_booking_earnings(s) ==
    /\ At(s, "complete_booking", "earnings")
    /\ vendors' = [vendors EXCEPT ![slots[s].vendor].earnings =
                       slots[s].earnings + bookings[slots[s].bid].amount]
    /\ notifications' =
          IF UserExists(bookings[slots[s].bid].customer_id)
          THEN Notify(notifications, bookings[slots[s].bid].customer_id,
                      "booking_completed", slots[s].bid)
          ELSE notifications
    /\ slots' = [slots EXCEPT ![s] = Respond(slots[s], "error")]
    /\ UNCHANGED <<now, bookings, signatures, sweeps, nreq, nsweep>>
    /\ UNCHANGED <<audit_logs, allocation>>

\* ============================================ complete_and_request_signature
\* the handler compares booking.vendor_id with the _id of the calling user
CompleteAndRequestChecks(r) ==
    LET booking == BookingFindById(r.bid)
    IN  IF ~booking.exists THEN Respond(r, "not_found")
        ELSE IF booking.vendor_id # r.uid THEN Respond(r, "forbidden")
        ELSE IF booking.status \notin {STATUS_ACCEPTED, STATUS_IN_PROGRESS}
        THEN Respond(r, "invalid_state")
        ELSE Goto(r, "write")

complete_and_request_signature(s) ==
    /\ Arrive(s)
    /\ \E u \in VendorUsers, bid \in BookingIds :
        Handle(s, CompleteAndRequestChecks(
                     Request("complete_and_request_signature", u, bid, NULL)))
    /\ UNCHANGED <<now, bookings, signatures, notifications, sweeps, nsweep>>
    /\ UNCHANGED <<vendors, audit_logs, allocation>>

\* Booking.update(booking_id, {status: completed, ...}), result ignored
complete_and_request_signature_write(s) ==
    /\ At(s, "complete_and_request_signature", "write")
    /\ bookings' = BookingUpdate(slots[s].bid,
            [bookings[slots[s].bid] EXCEPT !.status = STATUS_COMPLETED])
    /\ slots' = [slots EXCEPT ![s] = Goto(slots[s], "request")]
    /\ UNCHANGED <<now, signatures, notifications, sweeps, nreq, nsweep>>
    /\ UNCHANGED <<vendors, audit_logs, allocation>>

\* Booking.request_signature
RequestSignature(old, timeout_hours) ==
    [old EXCEPT !.signature_status = "requested",
                !.signature_requested_at = now,
                !.signature_timeout_at = now + Hours(timeout_hours)]

\* Booking.request_signature(booking_id, timeout_hours=48), then the
\* notification of the customer
complete_and_request_signature_request(s) ==
    /\ At(s, "complete_and_request_signature", "request")
    /\ LET bid == slots[s].bid
           old == bookings[bid]
           new == RequestSignature(old, SIGNATURE_TIMEOUT_HOURS)
       IN  /\ bookings' = BookingUpdate(bid, new)
           /\ \E signature_requested \in Modified(old, new) :
               notifications' =
                   IF signature_requested /\ UserExists(old.customer_id)
                   THEN Notify(notifications, old.customer_id,
                               "signature_required", bid)
                   ELSE notifications
    /\ slots' = [slots EXCEPT ![s] = Respond(slots[s], "ok")]
    /\ UNCHANGED <<now, signatures, sweeps, nreq, nsweep>>
    /\ UNCHANGED <<vendors, audit_logs, allocation>>

\* ========================================================== admin handlers
AdminChecks(r, allowed) ==
    LET booking == BookingFindById(r.bid)
    IN  IF ~booking.exists THEN Respond(r, "not_found")
        ELSE IF booking.status \notin allowed THEN Respond(r, "invalid_state")
        ELSE Goto(r, "write")

AdminRequest(s, op, allowed) ==
    /\ Arrive(s)
    /\ \E u \in Admins, bid \in BookingIds :
        Handle(s,
                     AdminChecks(Request(op, u, bid, NULL), allowed))
    /\ UNCHANGED <<now, bookings, signatures, notifications, sweeps, nsweep>>
    /\ UNCHANGED <<vendors, audit_logs, allocation>>

admin_confirm_booking(s) ==
    /\ AdminRequest(s, "admin_confirm_booking", {STATUS_PENDING})

admin_confirm_booking_write(s) ==
    /\ At(s, "admin_confirm_booking", "write")
    /\ StatusWrite(s, STATUS_ACCEPTED, "none", "ok")

\* admin start, complete and cancel check that the booking exists, nothing more
admin_start_booking(s) ==
    /\ AdminRequest(s, "admin_start_booking", VALID_STATUSES)

admin_start_booking_write(s) ==
    /\ At(s, "admin_start_booking", "write")
    /\ StatusWrite(s, STATUS_IN_PROGRESS, "none", "ok")

admin_complete_booking(s) ==
    /\ AdminRequest(s, "admin_complete_booking", VALID_STATUSES)

admin_complete_booking_write(s) ==
    /\ At(s, "admin_complete_booking", "write")
    /\ StatusWrite(s, STATUS_COMPLETED, "none", "ok")

admin_cancel_booking(s) ==
    /\ AdminRequest(s, "admin_cancel_booking", VALID_STATUSES)

admin_cancel_booking_write(s) ==
    /\ At(s, "admin_cancel_booking", "write")
    /\ StatusWrite(s, STATUS_CANCELLED, "none", "ok")

\* admin_refund_booking with cancel = true (the default of the request body):
\* the status it read decides whether the $set carries status = cancelled
admin_refund_booking(s) ==
    /\ Arrive(s)
    /\ \E u \in Admins, bid \in BookingIds :
        LET r == Request("admin_refund_booking", u, bid, NULL)
            booking == BookingFindById(bid)
        IN  Handle(s,
                IF ~booking.exists THEN Respond(r, "not_found")
                ELSE IF booking.status \notin {STATUS_CANCELLED, STATUS_VERIFIED}
                THEN Goto(r, "write")
                ELSE Goto(r, "write_payment_status"))
    /\ UNCHANGED <<now, bookings, signatures, notifications, sweeps, nsweep>>
    /\ UNCHANGED <<vendors, audit_logs, allocation>>

admin_refund_booking_write(s) ==
    /\ At(s, "admin_refund_booking", "write")
    /\ StatusWrite(s, STATUS_CANCELLED, "none", "ok")

\* the $set carries payment_status only: a field changes unless the booking
\* was refunded before
admin_refund_booking_write_payment_status(s) ==
    /\ At(s, "admin_refund_booking", "write_payment_status")
    /\ \E ok \in BOOLEAN :
        slots' = [slots EXCEPT ![s] =
                     Respond(slots[s], IF ok THEN "ok" ELSE "failed")]
    /\ UNCHANGED <<now, bookings, signatures, notifications, sweeps, nreq, nsweep>>
    /\ UNCHANGED <<vendors, audit_logs, allocation>>

\* the request bodies of admin_reassign_booking: the _id of a vendor, an _id
\* that no vendor has, or no vendor_id
ReassignInputs == VendorIds \cup {9, NULL}

\* admin_reassign_booking: the checks read the existence of the booking and
\* of the vendor, which nothing here changes, so they and the write are one
\* step; the $set carries vendor_id (and updated_at) only
admin_reassign_booking(s) ==
    /\ Arrive(s)
    /\ \E u \in Admins, bid \in BookingIds, vendor_id \in ReassignInputs :
        LET r   == [Request("admin_reassign_booking", u, bid, NULL)
                       EXCEPT !.vendor = vendor_id]
            old == BookingFindById(bid)
            new == [old EXCEPT !.vendor_id = vendor_id]
        IN  IF vendor_id = NULL
            THEN /\ Handle(s, Respond(r, "vendor_id_required"))
                 /\ UNCHANGED bookings
            ELSE IF ~old.exists
            THEN /\ Handle(s, Respond(r, "not_found"))
                 /\ UNCHANGED bookings
            ELSE IF vendor_id \notin VendorIds
            THEN /\ Handle(s, Respond(r, "vendor_not_found"))
                 /\ UNCHANGED bookings
            ELSE /\ bookings' = BookingUpdate(bid, new)
                 /\ \E ok \in Modified(old, new) :
                       Handle(s, Respond(r, IF ok THEN "reassigned"
                                                  ELSE "failed"))
    /\ UNCHANGED <<now, signatures, notifications, sweeps, nsweep>>
    /\ UNCHANGED <<vendors, audit_logs, allocation>>

\* ======================================================== Signature.create
\* sha256 is one-to-one on the strings hashed: a hash is the tuple of its inputs
Sha256(content) == content

\* Signature.find_by_booking
SignatureFindByBooking(bid) ==
    SelectSeq(signatures, LAMBDA sig : sig.booking_id = bid)

\* the collection without its unique index on booking_id
NoUniqueIndex(bid) == FALSE

\* create_index('booking_id', unique=True): an insert with a booking_id the
\* collection already holds raises DuplicateKeyError
DuplicateKey(bid) == Len(SignatureFindByBooking(bid)) > 0

\* an insert that is acknowledged and lost
SignatureCreateNotPersisted(data) ==
    [raised |-> FALSE, docs |-> signatures,
     hash |-> <<data.booking_id, data.customer_id, now>>]

\* Signature.create: ObjectId(str(None)) raises; the hash handed in by the
\* caller is replaced by one over booking id, customer id and the time of the
\* call; insert_one raises on the unique index on booking_id.  The result is
\* the collection after the call, or the exception.
SignatureCreate(data) ==
    LET hash == Sha256(<<data.booking_id, data.customer_id, now>>)
        doc  == [booking_id |-> data.booking_id,
                 customer_id |-> data.customer_id,
                 signature_hash |-> hash]
    IN  IF data.vendor_id = NULL
        THEN [raised |-> TRUE, docs |-> signatures, hash |-> NoHash]
        ELSE IF DuplicateKey(data.booking_id)
        THEN [raised |-> TRUE, docs |-> signatures, hash |-> NoHash]
        ELSE [raised |-> FALSE, docs |-> Append(signatures, doc), hash |-> hash]

\* ======================================================== submit_signature
\* the checks without the comparison of the clock with signature_timeout_at
SubmitSignatureChecksNoExpiry(r) ==
    LET booking == BookingFindById(r.bid)
    IN  IF ~TextAccepted[r.text]
        THEN Respond(r, "confirmation_required")
        ELSE IF ~booking.exists THEN Respond(r, "not_found")
        ELSE IF booking.customer_id # r.uid THEN Respond(r, "forbidden")
        ELSE IF booking.status # STATUS_COMPLETED
        THEN Respond(r, "not_completed")
        ELSE IF booking.signature_status \notin {"unsigned", "requested"}
        THEN Respond(r, "not_required")
        ELSE [Goto(r, "create") EXCEPT
                 !.hash = Sha256(<<r.bid, r.uid, now, r.text>>)]

\* the checks without the comparison of the caller with customer_id
SubmitSignatureChecksNoOwner(r) ==
    LET booking == BookingFindById(r.bid)
    IN  IF ~TextAccepted[r.text]
        THEN Respond(r, "confirmation_required")
        ELSE IF ~booking.exists THEN Respond(r, "not_found")
        ELSE IF booking.status # STATUS_COMPLETED
        THEN Respond(r, "not_completed")
        ELSE IF booking.signature_status \notin {"unsigned", "requested"}
        THEN Respond(r, "not_required")
        ELSE IF /\ booking.signature_timeout_at # NULL
                /\ now > booking.signature_timeout_at
        THEN Respond(r, "expired")
        ELSE [Goto(r, "create") EXCEPT
                 !.hash = Sha256(<<r.bid, r.uid, now, r.text>>)]

\* the checks of submit_signature in their order; when all pass the handler
\* computes the hash over booking id, user id, time and confirmation text
SubmitSignatureChecks(r) ==
    LET booking == BookingFindById(r.bid)
    IN  IF ~TextAccepted[r.text]
        THEN Respond(r, "confirmation_required")
        ELSE IF ~booking.exists THEN Respond(r, "not_found")
        ELSE IF booking.customer_id # r.uid THEN Respond(r, "forbidden")
        ELSE IF booking.status # STATUS_COMPLETED
        THEN Respond(r, "not_completed")
        ELSE IF booking.signature_status \notin {"unsigned", "requested"}
        THEN Respond(r, "not_required")
        ELSE IF /\ booking.signature_timeout_at # NULL
                /\ now > booking.signature_timeout_at
        THEN Respond(r, "expired")
        ELSE [Goto(r, "create") EXCEPT
                 !.hash = Sha256(<<r.bid, r.uid, now, r.text>>)]

submit_signature(s) ==
    /\ Arrive(s)
    /\ \E u \in Customers, bid \in BookingIds, t \in TextIds :
        Handle(s,
            SubmitSignatureChecks(Request("submit_signature", u, bid, t)))
    /\ UNCHANGED <<now, bookings, signatures, notifications, sweeps, nsweep>>
    /\ UNCHANGED <<vendors, audit_logs, allocation>>

\* Signature.create(signature_data_record)
submit_signature_create(s) ==
    /\ At(s, "submit_signature", "create")
    /\ LET c == SignatureCreate([booking_id |-> slots[s].bid,
                                 customer_id |-> slots[s].uid,
                                 vendor_id |-> bookings[slots[s].bid].vendor_id])
       IN  /\ signatures' = c.docs
           /\ slots' = [slots EXCEPT ![s] =
                 IF c.raised THEN Respond(slots[s], "error")
                 ELSE Goto(slots[s], "write")]
    /\ UNCHANGED <<now, bookings, notifications, sweeps, nreq, nsweep>>
    /\ UNCHANGED <<vendors, audit_logs, allocation>>

\* Booking.submit_signature
SubmitSignature(old, signature_hash) ==
    [old EXCEPT !.signature_status = "signed",
                !.signature_hash = signature_hash,
                !.signature_submitted_at = now,
                !.status = STATUS_VERIFIED]

\* Booking.submit_signature(booking_id, signature_hash), then the
\* notification of the user whose _id is booking.vendor_id, if there is one
submit_signature_write(s) ==
    /\ At(s, "submit_signature", "write")
    /\ LET bid == slots[s].bid
           old == bookings[bid]
           new == SubmitSignature(old, slots[s].hash)
       IN  /\ bookings' = BookingUpdate(bid, new)
           /\ \E signature_submitted \in Modified(old, new) :
               notifications' =
                   IF signature_submitted /\ UserExists(old.vendor_id)
                   THEN Notify(notifications, old.vendor_id,
                               "signature_completed", bid)
                   ELSE notifications
    /\ slots' = [slots EXCEPT ![s] = Respond(slots[s], "signed")]
    /\ UNCHANGED <<now, signatures, sweeps, nreq, nsweep>>
    /\ UNCHANGED <<vendors, audit_logs, allocation>>

\* ============================================================= sign_booking
SignBookingChecks(r) ==
    LET booking == BookingFindById(r.bid)
    IN  IF ~booking.exists THEN Respond(r, "not_found")
        ELSE IF booking.customer_id # r.uid THEN Respond(r, "forbidden")
        ELSE IF booking.status # STATUS_COMPLETED
        THEN Respond(r, "not_completed")
        ELSE IF booking.signature_status = "signed"
        THEN Respond(r, "already_signed")
        ELSE Goto(r, "create")

sign_booking(s) ==
    /\ Arrive(s)
    /\ \E u \in Customers, bid \in BookingIds :
        Handle(s,
            SignBookingChecks(Request("sign_booking", u, bid, NULL)))
    /\ UNCHANGED <<now, bookings, signatures, notifications, sweeps, nsweep>>
    /\ UNCHANGED <<vendors, audit_logs, allocation>>

\* Signature.create(signature_data) and Signature.find_by_id of the result
sign_booking_create(s) ==
    /\ At(s, "sign_booking", "create")
    /\ LET c == SignatureCreate([booking_id |-> slots[s].bid,
                                 customer_id |-> slots[s].uid,
                                 vendor_id |-> bookings[slots[s].bid].vendor_id])
       IN  /\ signatures' = c.docs
           /\ slots' = [slots EXCEPT ![s] =
                 IF c.raised THEN Respond(slots[s], "error")
                 ELSE [Goto(slots[s], "write") EXCEPT !.hash = c.hash]]
    /\ UNCHANGED <<now, bookings, notifications, sweeps, nreq, nsweep>>
    /\ UNCHANGED <<vendors, audit_logs, allocation>>

\* Booking.update with signature_status, signature_hash and status, then the
\* notification addressed to booking.vendor_id
sign_booking_write(s) ==
    /\ At(s, "sign_booking", "write")
    /\ LET bid == slots[s].bid
           old == bookings[bid]
       IN  /\ bookings' = BookingUpdate(bid,
                  [old EXCEPT !.signature_status = "signed",
                              !.signature_hash = slots[s].hash,
                              !.status = STATUS_VERIFIED])
           /\ notifications' =
                  Notify(notifications, old.vendor_id, "signature_completed", bid)
    /\ slots' = [slots EXCEPT ![s] = Respond(slots[s], "signed")]
    /\ UNCHANGED <<now, signatures, sweeps, nreq, nsweep>>
    /\ UNCHANGED <<vendors, audit_logs, allocation>>

\* ================================================= check_signature_timeouts
\* Booking.get_expired_signatures, in natural order
GetExpiredSignatures ==
    SelectSeq(<<101, 102>>,
        LAMBDA b : /\ bookings[b].exists
                   /\ bookings[b].signature_status = "requested"
                   /\ bookings[b].signature_timeout_at # NULL
                   /\ bookings[b].signature_timeout_at < now
                   /\ ~bookings[b].signature_escalated)

\* the query without its signature_status and signature_escalated conditions
\* and without the lower end of its window
GetPendingRemindersAnyStatus ==
    SelectSeq(<<101, 102>>,
        LAMBDA b : /\ bookings[b].exists
                   /\ bookings[b].signature_timeout_at # NULL
                   /\ bookings[b].signature_timeout_at < now + Hours(12))

\* the query of send_signature_reminders, in natural order
GetPendingReminders ==
    SelectSeq(<<101, 102>>,
        LAMBDA b : /\ bookings[b].exists
                   /\ bookings[b].signature_status = "requested"
                   /\ bookings[b].signature_timeout_at # NULL
                   /\ bookings[b].signature_timeout_at < now + Hours(12)
                   /\ bookings[b].signature_timeout_at > now
                   /\ ~bookings[b].signature_escalated)

\* run_signature_monitor after check_signature_timeouts has returned: it
\* calls send_signature_reminders, which starts with its query; when that
\* returns nothing, get_signature_statistics counts and the invocation is over
SendSignatureReminders ==
    IF GetPendingReminders = <<>> THEN IdleSweep
    ELSE [IdleSweep EXCEPT !.pc = "remind", !.todo = GetPendingReminders]

\* a sweep starts: the query of check_signature_timeouts, and when that
\* returns nothing the query of send_signature_reminders.  A sweep whose
\* queries return nothing is over at once; nsweep counts the others.
SweepStart(w) ==
    /\ NoResponsePending
    /\ sweeps[w].pc = "idle"
    /\ \A w2 \in Sweeps : w2 < w => sweeps[w2].pc # "idle"
    /\ LET started ==
               IF GetExpiredSignatures = <<>> THEN SendSignatureReminders
               ELSE [IdleSweep EXCEPT !.pc = "loop",
                                      !.todo = GetExpiredSignatures]
       IN  /\ sweeps' = [sweeps EXCEPT ![w] = started]
           /\ IF started = IdleSweep
              THEN nsweep' = nsweep
              ELSE /\ nsweep < MaxSweeps
                   /\ nsweep' = nsweep + 1
    /\ UNCHANGED <<now, bookings, signatures, notifications, slots, nreq>>
    /\ UNCHANGED <<vendors, audit_logs, allocation>>

\* Booking.escalate_signature_timeout
EscalateSignatureTimeout(old) ==
    [old EXCEPT !.signature_status = "expired", !.signature_escalated = TRUE]

\* the escalation notifications: every super admin, the customer, and the
\* user whose _id is booking.vendor_id, when such users exist
EscalationNotifications(bag, booking) ==
    LET recipients ==
            Admins
            \cup (IF UserExists(booking.customer_id)
                  THEN {booking.customer_id} ELSE {})
            \cup (IF UserExists(booking.vendor_id)
                  THEN {booking.vendor_id} ELSE {})
    IN  bag (+) SetToBag({[user_id |-> u, type |-> "escalation",
                           booking_id |-> booking.id] : u \in recipients})

\* AuditLog.log(action = AuditLog.ACTION_ESCALATION, ...)
AuditLogEscalation(bag, bid) ==
    bag (+) SetToBag({[action |-> "escalation", entity_id |-> bid]})

\* one iteration of the loop: the write, and when it reports a modification
\* the notifications and the audit entry
SweepEscalate(w) ==
    /\ NoResponsePending
    /\ sweeps[w].pc = "loop"
    /\ sweeps[w].todo # <<>>
    /\ LET bid == Head(sweeps[w].todo)
           old == bookings[bid]
           new == EscalateSignatureTimeout(old)
       IN  /\ bookings' = BookingUpdate(bid, new)
           /\ \E escalated \in Modified(old, new) :
               /\ notifications' =
                     IF escalated THEN EscalationNotifications(notifications, old)
                     ELSE notifications
               /\ audit_logs' =
                     IF escalated THEN AuditLogEscalation(audit_logs, bid)
                     ELSE audit_logs
               /\ sweeps' = [sweeps EXCEPT ![w] =
                     [@ EXCEPT !.todo = Tail(@),
                               !.escalated_count =
                                   IF escalated THEN @ + 1 ELSE @]]
    /\ UNCHANGED <<now, signatures, slots, nreq, nsweep>>
    /\ UNCHANGED <<vendors, allocation>>

\* the write of an iteration reports a modification and the first
\* Notification.create after it raises: the except clause around the loop
\* logs the error and check_signature_timeouts returns 0;
\* run_signature_monitor goes on to send_signature_reminders
SweepEscalateRaises(w) ==
    /\ NoResponsePending
    /\ sweeps[w].pc = "loop"
    /\ sweeps[w].todo # <<>>
    /\ LET bid == Head(sweeps[w].todo)
           old == bookings[bid]
           new == EscalateSignatureTimeout(old)
       IN  /\ TRUE \in Modified(old, new)
           /\ bookings' = BookingUpdate(bid, new)
    /\ UNCHANGED <<now, signatures, notifications, slots, nreq, nsweep>>
    /\ UNCHANGED <<vendors, audit_logs, allocation>>
    /\ sweeps' = [sweeps EXCEPT ![w] = SendSignatureReminders']

\* the loop is over: check_signature_timeouts returns the count and
\* run_signature_monitor goes on to send_signature_reminders
SweepReturn(w) ==
    /\ NoResponsePending
    /\ sweeps[w].pc = "loop"
    /\ sweeps[w].todo = <<>>
    /\ sweeps' = [sweeps EXCEPT ![w] = SendSignatureReminders]
    /\ UNCHANGED <<now, bookings, signatures, notifications, slots, nreq, nsweep>>
    /\ UNCHANGED <<vendors, audit_logs, allocation>>

\* ================================================= send_signature_reminders
\* a signature_reminder notification, with the created_at the dedupe reads
Reminder(user, bid, created_at) ==
    [user_id |-> user, type |-> "signature_reminder", booking_id |-> bid,
     created_at |-> created_at]

\* Notification.find_all for the reminders of this customer and booking
\* created in the last six hours: is there one?
RecentReminders(user, bid) ==
    \E n \in BagToSet(notifications) :
        /\ n.type = "signature_reminder"
        /\ n.user_id = user
        /\ n.booking_id = bid
        /\ n.created_at > now - Hours(6)

\* one iteration of the loop up to Notification.create: the booking is
\* skipped when a recent reminder is found or its customer is not
ReminderFindRecent(w) ==
    /\ NoResponsePending
    /\ sweeps[w].pc = "remind"
    /\ sweeps[w].todo # <<>>
    /\ LET bid      == Head(sweeps[w].todo)
           customer == bookings[bid].customer_id
       IN  sweeps' = [sweeps EXCEPT ![w] =
               IF RecentReminders(customer, bid) \/ ~UserExists(customer)
               THEN [@ EXCEPT !.todo = Tail(@)]
               ELSE [@ EXCEPT !.pc = "notify"]]
    /\ UNCHANGED <<now, bookings, signatures, notifications, slots, nreq, nsweep>>
    /\ UNCHANGED <<vendors, audit_logs, allocation>>

\* the rest of the iteration: Notification.create
ReminderNotify(w) ==
    /\ NoResponsePending
    /\ sweeps[w].pc = "notify"
    /\ LET bid == Head(sweeps[w].todo)
       IN  notifications' = notifications (+)
               SetToBag({Reminder(bookings[bid].customer_id, bid, now)})
    /\ sweeps' = [sweeps EXCEPT ![w] =
            [@ EXCEPT !.pc = "remind", !.todo = Tail(@),
                      !.reminder_count = @ + 1]]
    /\ UNCHANGED <<now, bookings, signatures, slots, nreq, nsweep>>
    /\ UNCHANGED <<vendors, audit_logs, allocation>>

\* Notification.create raises: the except clause around the loop logs the
\* error and send_signature_reminders returns 0; the statistics follow
ReminderNotifyRaises(w) ==
    /\ NoResponsePending
    /\ sweeps[w].pc = "notify"
    /\ sweeps' = [sweeps EXCEPT ![w] = IdleSweep]
    /\ UNCHANGED <<now, bookings, signatures, notifications, slots, nreq, nsweep>>
    /\ UNCHANGED <<vendors, audit_logs, allocation>>

\* the loop is over: the count is returned, the statistics are counted
ReminderReturn(w) ==
    /\ NoResponsePending
    /\ sweeps[w].pc = "remind"
    /\ sweeps[w].todo = <<>>
    /\ sweeps' = [sweeps EXCEPT ![w] = IdleSweep]
    /\ UNCHANGED <<now, bookings, signatures, notifications, slots, nreq, nsweep>>
    /\ UNCHANGED <<vendors, audit_logs, allocation>>

\* every handler but sign_booking, the clock and the sweep
Workflow ==
    \/ Tick
    \/ \E s \in Slots :
        \/ Return(s)
        \/ create_booking(s)
        \/ accept_booking(s) \/ accept_booking_write(s)
        \/ reject_booking(s) \/ reject_booking_write(s)
        \/ start_booking(s) \/ start_booking_write(s)
        \/ complete_booking(s) \/ complete_booking_write(s)
        \/ complete_booking_earnings(s)
        \/ complete_and_request_signature(s)
        \/ complete_and_request_signature_write(s)
        \/ complete_and_request_signature_request(s)
        \/ admin_confirm_booking(s) \/ admin_confirm_booking_write(s)
        \/ admin_start_booking(s) \/ admin_start_booking_write(s)
        \/ admin_complete_booking(s) \/ admin_complete_booking_write(s)
        \/ admin_cancel_booking(s) \/ admin_cancel_booking_write(s)
        \/ admin_refund_booking(s) \/ admin_refund_booking_write(s)
        \/ admin_refund_booking_write_payment_status(s)
        \/ submit_signature(s) \/ submit_signature_create(s)
        \/ submit_signature_write(s)
    \/ \E w \in Sweeps :
        SweepStart(w) \/ SweepEscalate(w) \/ SweepReturn(w)

SignBooking ==
    \E s \in Slots :
        sign_booking(s) \/ sign_booking_create(s) \/ sign_booking_write(s)

Next == Workflow \/ SignBooking

\* the whole application
Spec == Init /\ [][Next]_vars

\* the application with /job/signature_submit as the only way to sign
SpecSubmit == Init /\ [][Workflow]_vars

\* ------------------------------------------------ the monitor at work
\* vendor 6 has been suspended and has switched its availability off
SuspendedVendors ==
    [Vendors EXCEPT ![6].onboarding_status = "suspended",
                    ![6].availability = FALSE]

\* a booking of vendor 3 as create_booking, start and
\* complete_and_request_signature leave it
RequestedBooking(id, customer) ==
    RequestSignature(
        [NewBooking(id, customer, 3) EXCEPT !.status = STATUS_COMPLETED],
        SIGNATURE_TIMEOUT_HOURS)

\* The store right after vendor 3 has completed two bookings and requested
\* their signatures, with the notifications those requests left.
InitMonitor ==
    /\ now = 0
    /\ bookings = [b \in AllBookingIds |->
                      RequestedBooking(b, IF b = 101 THEN 1 ELSE 2)]
    /\ signatures = <<>>
    /\ notifications =
          SetToBag({[user_id |-> IF b = 101 THEN 1 ELSE 2,
                     type |-> "signature_required", booking_id |-> b]
                        : b \in AllBookingIds})
          (+) SetToBag({[user_id |-> 3, type |-> "booking_created",
                         booking_id |-> b] : b \in AllBookingIds})
    /\ slots = [s \in Slots |-> IdleSlot]
    /\ sweeps = [w \in Sweeps |-> IdleSweep]
    /\ nreq = 0
    /\ nsweep = 0
    /\ vendors = SuspendedVendors
    /\ audit_logs = EmptyBag
    /\ allocation = NoAllocation

\* the clock in steps of six hours, run_signature_monitor with its two
\* passes and their failures, and the reassignment of a booking
Monitor ==
    \/ TickSixHours
    \/ \E s \in Slots :
        Return(s) \/ admin_reassign_booking(s)
    \/ \E w \in Sweeps :
        \/ SweepStart(w) \/ SweepEscalate(w) \/ SweepEscalateRaises(w)
        \/ SweepReturn(w)
        \/ ReminderFindRecent(w) \/ ReminderNotify(w)
        \/ ReminderNotifyRaises(w) \/ ReminderReturn(w)

SpecMonitor == InitMonitor /\ [][Monitor]_vars

\* The store right after vendor 3 has completed one booking and requested
\* its signature.
InitEscalation ==
    /\ now = 0
    /\ bookings = [b \in AllBookingIds |->
                      IF b = 101 THEN RequestedBooking(b, 1) ELSE NoBooking]
    /\ signatures = <<>>
    /\ notifications =
          SetToBag({[user_id |-> 1, type |-> "signature_required",
                     booking_id |-> 101],
                    [user_id |-> 3, type |-> "booking_created",
                     booking_id |-> 101]})
    /\ slots = [s \in Slots |-> IdleSlot]
    /\ sweeps = [w \in Sweeps |-> IdleSweep]
    /\ nreq = 0
    /\ nsweep = 0
    /\ vendors = Vendors
    /\ audit_logs = EmptyBag
    /\ allocation = NoAllocation

\* the clock in steps of six hours, run_signature_monitor, and the handlers
\* that open a signature window again: the admin's start and the vendor's
\* completion
Escalation ==
    \/ TickSixHours
    \/ \E s \in Slots :
        \/ Return(s)
        \/ admin_start_booking(s) \/ admin_start_booking_write(s)
        \/ complete_and_request_signature(s)
        \/ complete_and_request_signature_write(s)
        \/ complete_and_request_signature_request(s)
    \/ \E w \in Sweeps :
        \/ SweepStart(w) \/ SweepEscalate(w) \/ SweepReturn(w)
        \/ ReminderFindRecent(w) \/ ReminderNotify(w) \/ ReminderReturn(w)

SpecEscalation == InitEscalation /\ [][Escalation]_vars

\* ---------------------------------------------------------------------
\* The vendors collection in every combination of rating, experience and
\* served pincodes, all vendors available; bookings are created over it and
\* the allocation engine is called on it.  On these inputs the floating-point
\* sums of calculate_vendor_score are ordered exactly as their thousandths:
\* two scores are equal only when rating and pincode match agree and both
\* vendors have 100 completed jobs or more.
RatingInputs        == {0, 4, 5}
CompletedJobsInputs == {0, 100, 150}
PincodeSets         == {{Pin560001}, {}}

VendorTables ==
    {[v \in VendorIds |->
         [Vendors[v] EXCEPT !.ratings = f[v].ratings,
                            !.completed_jobs = f[v].completed_jobs,
                            !.pincodes = f[v].pincodes]]
        : f \in [VendorIds -> [ratings : RatingInputs,
                               completed_jobs : CompletedJobsInputs,
                               pincodes : PincodeSets]]}

InitAllocate ==
    /\ now = 0
    /\ bookings = [b \in AllBookingIds |-> NoBooking]
    /\ signatures = <<>>
    /\ notifications = EmptyBag
    /\ slots = [s \in Slots |-> IdleSlot]
    /\ sweeps = [w \in Sweeps |-> IdleSweep]
    /\ nreq = 0
    /\ nsweep = 0
    /\ vendors \in VendorTables
    /\ audit_logs = EmptyBag
    /\ allocation = NoAllocation

Allocate ==
    \/ \E s \in Slots : create_booking(s) \/ Return(s)
    \/ allocate_vendor

SpecAllocate == InitAllocate /\ [][Allocate]_vars

\* ---------------------------------------------------------------------
\* Onboarding: every vendor is either registered (auth.py register:
\* pending_verification, the three flags false) or set to approved by the
\* seed command or the super admin, with each combination of availability
\* and, for vendor 6, of offered service and served pincodes.
StatusInputs  == {"approved", "pending_verification"}
ServiceSets   == {{"Plumbing"}, {"Painting"}}

OnboardingTables ==
    {[v \in VendorIds |->
         [Vendors[v] EXCEPT !.onboarding_status = f[v].onboarding_status,
                            !.availability = f[v].availability,
                            !.services = IF v = 6 THEN f[v].services ELSE @,
                            !.pincodes = IF v = 6 THEN f[v].pincodes ELSE @]]
        : f \in {g \in [VendorIds -> [onboarding_status : StatusInputs,
                                      availability : BOOLEAN,
                                      services : ServiceSets,
                                      pincodes : PincodeSets]] :
                    /\ g[3].services = {"Plumbing"}
                    /\ g[3].pincodes = {Pin560001}}}

InitOnboarding ==
    /\ now = 0
    /\ bookings = [b \in AllBookingIds |-> NoBooking]
    /\ signatures = <<>>
    /\ notifications = EmptyBag
    /\ slots = [s \in Slots |-> IdleSlot]
    /\ sweeps = [w \in Sweeps |-> IdleSweep]
    /\ nreq = 0
    /\ nsweep = 0
    /\ vendors \in OnboardingTables
    /\ audit_logs = EmptyBag
    /\ allocation = NoAllocation

Onboarding ==
    \E s \in Slots :
        \/ verify_profile(s)
        \/ approve_vendor(s) \/ approve_vendor_write(s)
        \/ reject_vendor(s) \/ reject_vendor_write(s)
        \/ create_custom_service(s) \/ create_custom_service_write(s)
        \/ create_booking(s) \/ create_booking_with_vendor(s)
        \/ Return(s)

SpecOnboarding == InitOnboarding /\ [][Onboarding]_vars

\* ---------------------------------------------------------------------
\* Earnings: vendor 6 (user 4) has earned 100 so far and has two bookings,
\* 101 accepted and 102 in progress, with different amounts; the vendor
\* starts and completes them, in any interleaving of the two requests.
VendorBooking(id, customer, status, amount) ==
    [NewBooking(id, customer, 6) EXCEPT !.status = status, !.amount = amount]

InitEarnings ==
    /\ now = 0
    /\ bookings = [b \in AllBookingIds |->
                      IF b = 101
                      THEN VendorBooking(b, 1, STATUS_ACCEPTED, 30)
                      ELSE VendorBooking(b, 2, STATUS_IN_PROGRESS, 50)]
    /\ signatures = <<>>
    /\ notifications = EmptyBag
    /\ slots = [s \in Slots |-> IdleSlot]
    /\ sweeps = [w \in Sweeps |-> IdleSweep]
    /\ nreq = 0
    /\ nsweep = 0
    /\ vendors = [Vendors EXCEPT ![6].earnings = 100]
    /\ audit_logs = EmptyBag
    /\ allocation = NoAllocation

\* complete_booking for either booking of the vendor
complete_booking_of_vendor(s) ==
    /\ CompleteBooking(s, AllBookingIds)

Earnings ==
    \E s \in Slots :
        \/ start_booking(s) \/ start_booking_write(s)
        \/ complete_booking_of_vendor(s) \/ complete_booking_write(s)
        \/ complete_booking_earnings(s)
        \/ Return(s)

SpecEarnings == InitEarnings /\ [][Earnings]_vars

\* ================================================================ properties
\* the transition graph of the booking status
TransitionGraph ==
    {<<STATUS_PENDING, STATUS_ACCEPTED>>, <<STATUS_ACCEPTED, STATUS_IN_PROGRESS>>,
     <<STATUS_IN_PROGRESS, STATUS_COMPLETED>>, <<STATUS_COMPLETED, STATUS_VERIFIED>>,
     <<STATUS_PENDING, STATUS_REJECTED>>, <<STATUS_PENDING, STATUS_CANCELLED>>,
     <<STATUS_ACCEPTED, STATUS_CANCELLED>>, <<STATUS_IN_PROGRESS, STATUS_CANCELLED>>}

\* the slot s takes a request for op in this step
Arrives(s, op) == slots[s].pc = "idle" /\ slots'[s].op = op

\* there is a signatures document for booking b
HasSignature(b) == \E i \in 1..Len(signatures) : signatures[i].booking_id = b

\* C1: every step that changes the status of a booking changes it along an
\* edge of the transition graph (so rejected, cancelled and verified are never
\* left, and cancelled is entered from pending, accepted or in_progress only).
C1_StatusChangesFollowGraph ==
    [][\A b \in BookingIds :
          (bookings[b].exists /\ bookings'[b].status # bookings[b].status)
              => <<bookings[b].status, bookings'[b].status>> \in TransitionGraph]_vars

C6_OneSignaturePerBooking ==
    [][/\ Len(signatures') >= Len(signatures)
       /\ SubSeq(signatures', 1, Len(signatures)) = signatures
       /\ \A i, j \in 1..Len(signatures') :
            signatures'[i].booking_id = signatures'[j].booking_id => i = j]_vars

\* two submissions passed their checks; the second insert was refused
C6_Witness ==
    \E s, s2 \in Slots :
        /\ slots[s].op \in {"submit_signature", "sign_booking"}
        /\ slots[s].pc = "done" /\ slots[s].resp = "error"
        /\ slots[s2].op \in {"submit_signature", "sign_booking"}
        /\ slots[s2].pc = "write" /\ slots[s2].bid = slots[s].bid
        /\ bookings[slots[s].bid].signature_status # "signed"
        /\ Len(SignatureFindByBooking(slots[s].bid)) = 1

\* the request of a submit by the customer of a completed booking whose
\* signature is requested, with an accepted text
SubmitOfRequested(s) ==
    /\ Arrives(s, "submit_signature")
    /\ TextAccepted[slots'[s].text]
    /\ bookings[slots'[s].bid].exists
    /\ bookings[slots'[s].bid].customer_id = slots'[s].uid
    /\ bookings[slots'[s].bid].status = STATUS_COMPLETED
    /\ bookings[slots'[s].bid].signature_status = "requested"
    /\ bookings[slots'[s].bid].signature_timeout_at # NULL

C8_HashBindsSubmission ==
    \A s \in Slots :
        (slots[s].op = "submit_signature" /\ slots[s].pc = "done"
            /\ slots[s].resp = "signed")
        => LET b == bookings[slots[s].bid]
           IN  /\ b.signature_status = "signed"
               /\ b.status = STATUS_VERIFIED
               /\ b.signature_hash =
                      <<slots[s].bid, b.customer_id, b.signature_submitted_at,
                        slots[s].text>>
               /\ \E i \in 1..Len(signatures) :
                      /\ signatures[i].booking_id = slots[s].bid
                      /\ signatures[i].signature_hash = b.signature_hash

\* the answers of a submit that was refused by a check
SubmitRefusals ==
    {"confirmation_required", "not_found", "forbidden", "not_completed",
     "not_required", "expired"}

\* C9: a submit for a booking that does not exist, or by a caller who is not
\* its customer, or whose status is not completed, or whose signature_status
\* is neither unsigned nor requested, is refused with the matching error (not
\* found, forbidden, invalid state), creates no Signature and leaves the
\* booking as it is.
C9_SubmitRefused ==
    [][\A s \in Slots : Arrives(s, "submit_signature") =>
          LET r == slots'[s]
              b == BookingFindById(r.bid)
              accepted == TextAccepted[r.text]
              owner == b.exists /\ b.customer_id = r.uid
          IN  /\ (~b.exists \/ b.customer_id # r.uid
                    \/ b.status # STATUS_COMPLETED
                    \/ b.signature_status \notin {"unsigned", "requested"})
                  => /\ r.pc = "done" /\ r.resp \in SubmitRefusals
                     /\ UNCHANGED <<bookings, signatures>>
              /\ (accepted /\ ~b.exists) => r.resp = "not_found"
              /\ (accepted /\ b.exists /\ b.customer_id # r.uid)
                  => r.resp = "forbidden"
              /\ (accepted /\ owner /\ b.status # STATUS_COMPLETED)
                  => r.resp = "not_completed"
              /\ (accepted /\ owner /\ b.status = STATUS_COMPLETED
                    /\ b.signature_status \notin {"unsigned", "requested"})
                  => r.resp = "not_required"]_vars

\* the customer's submit for a completed booking whose signature has expired
\* was refused
C9_Witness ==
    \E s \in Slots :
        /\ slots[s].op = "submit_signature"
        /\ slots[s].pc = "done" /\ slots[s].resp = "not_required"
        /\ bookings[slots[s].bid].customer_id = slots[s].uid
        /\ bookings[slots[s].bid].signature_status = "expired"

\* the phrase occurs in txt, whatever the case of the letters
HasPhrase(txt) ==
    \E i \in 1..Len(txt) :
        /\ i + Len(REQUIRED_CONFIRMATION) - 1 <= Len(txt)
        /\ \A k \in 1..Len(REQUIRED_CONFIRMATION) :
              LowerChar(txt[i + k - 1]) = LowerChar(REQUIRED_CONFIRMATION[k])

\* the texts a client sends that hold the phrase
TextHasPhrase == [t \in TextIds |-> HasPhrase(Texts[t])]

\* C10: a submit whose confirmation text lacks the phrase is answered with
\* the confirmation error whatever the booking is (the text is checked before
\* the booking is looked up) and changes nothing; a text that holds the phrase
\* among other words, in any case, is not answered with that error.
C10_ConfirmationGuard ==
    [][\A s \in Slots : Arrives(s, "submit_signature") =>
          IF TextHasPhrase[slots'[s].text]
          THEN slots'[s].resp # "confirmation_required"
          ELSE /\ slots'[s].pc = "done"
               /\ slots'[s].resp = "confirmation_required"
               /\ UNCHANGED <<bookings, signatures, notifications>>]_vars

\* a text without the phrase was refused although the booking was the
\* caller's, completed and waiting for the signature
C10_Witness ==
    \E s \in Slots :
        /\ slots[s].op = "submit_signature"
        /\ slots[s].pc = "done" /\ slots[s].resp = "confirmation_required"
        /\ ~TextHasPhrase[slots[s].text]
        /\ bookings[slots[s].bid].customer_id = slots[s].uid
        /\ bookings[slots[s].bid].status = STATUS_COMPLETED
        /\ bookings[slots[s].bid].signature_status = "requested"

\* C11: completion always opens a signature window: in every state a booking
\* whose status is completed has a signature_status other than unsigned and
\* signature_timeout_at set.
C11_CompletedHasSignatureWindow ==
    \A b \in BookingIds :
        bookings[b].status = STATUS_COMPLETED
            => /\ bookings[b].signature_status # "unsigned"
               /\ bookings[b].signature_timeout_at # NULL

Overdue(b) ==
    /\ bookings[b].exists
    /\ bookings[b].signature_status = "requested"
    /\ bookings[b].signature_timeout_at # NULL
    /\ bookings[b].signature_timeout_at < now

Escalation_(u, b) == [user_id |-> u, type |-> "escalation", booking_id |-> b]

C17_ReassignValidatesVendor ==
    [][\A s \in Slots : Arrives(s, "admin_reassign_booking") =>
          LET r == slots'[s]
              eligible == /\ r.vendor \in VendorIds
                          /\ vendors[r.vendor].onboarding_status = "approved"
                          /\ vendors[r.vendor].availability
          IN  /\ r.resp = "reassigned" => eligible
              /\ ~eligible =>
                    bookings'[r.bid].vendor_id = bookings[r.bid].vendor_id
              /\ [bookings'[r.bid] EXCEPT
                     !.vendor_id = bookings[r.bid].vendor_id]
                    = bookings[r.bid]]_vars

\* the vendors create_booking may assign by itself to a booking of the one
\* service in this pincode: approved, available, offering it, serving it
Eligible(pincode) ==
    {v \in VendorIds : /\ vendors[v].onboarding_status = "approved"
                       /\ vendors[v].availability
                       /\ "Plumbing" \in vendors[v].services
                       /\ pincode \in vendors[v].pincodes}

\* the booking_created notification of the vendor's user for a booking
NewBookingNotification(v, bid) ==
    [user_id |-> vendors[v].user_id, type |-> "booking_created",
     booking_id |-> bid]

\* C18: a create with a valid six-digit pincode and no vendor_id, for which
\* no vendor is eligible, succeeds and stores the booking as pending with
\* vendor_id null, signature_status unsigned and signature_escalated false;
\* and whenever a create succeeds, a vendor gets one new-booking notification
\* exactly when it is the vendor stored on the booking.
C18_CreateWithoutVendor ==
    [][\A s \in Slots :
          Arrives(s, "create_booking") =>
             LET r == slots'[s]
             IN  /\ (/\ IsDigit(r.pincode) /\ Len(r.pincode) = 6
                     /\ r.vendor = NULL
                     /\ Eligible(r.pincode) = {})
                        => /\ r.resp = "created"
                           /\ ~bookings[r.bid].exists
                           /\ bookings'[r.bid].exists
                           /\ bookings'[r.bid].status = STATUS_PENDING
                           /\ bookings'[r.bid].vendor_id = NULL
                           /\ bookings'[r.bid].signature_status = "unsigned"
                           /\ bookings'[r.bid].signature_escalated = FALSE
                 /\ r.resp = "created"
                        => \A v \in VendorIds :
                              CopiesIn(NewBookingNotification(v, r.bid),
                                       notifications')
                                 = IF bookings'[r.bid].vendor_id = v
                                   THEN 1 ELSE 0
                 /\ r.resp # "created" => notifications' = notifications]_vars

\* a booking was created without a vendor although the request was valid
C18_Witness ==
    \E s \in Slots :
        /\ slots[s].op = "create_booking"
        /\ slots[s].resp = "created"
        /\ slots[s].vendor = NULL
        /\ Len(slots[s].pincode) = 6
        /\ Eligible(slots[s].pincode) = {}
        /\ bookings[slots[s].bid].exists
        /\ bookings[slots[s].bid].vendor_id = NULL
        /\ notifications = EmptyBag

\* C19: when a create names no vendor and at least one vendor is eligible,
\* the vendor stored on the booking is an eligible one whose score
\* 0.4*(rating/5) + 0.3*[available] + 0.2*[pincode served]
\* + 0.1*min(completed_jobs/100, 1) no eligible vendor exceeds; and every score
\* the engine computes lies between 0 and 1 (0 and 1000 thousandths).
C19_CreateMaximisesScore ==
    [][/\ \A s \in Slots :
             (/\ Arrives(s, "create_booking")
              /\ slots'[s].resp = "created"
              /\ slots'[s].vendor = NULL
              /\ Eligible(slots'[s].pincode) # {})
                => LET stored == bookings'[slots'[s].bid].vendor_id
                       pin    == slots'[s].pincode
                   IN  /\ stored \in Eligible(pin)
                       /\ \A c \in Eligible(pin) :
                             calculate_vendor_score(c, pin)
                                <= calculate_vendor_score(stored, pin)
       /\ \A i \in 1..Len(allocation'.vendors) :
             calculate_vendor_score(allocation'.vendors[i], allocation'.pincode)
                \in 0..1000]_vars

\* vendor b is preferred to vendor c for a booking in this pincode: a higher
\* score, or the same score and more completed jobs, or both the same and
\* the smaller id
Preferred(b, c, pincode) ==
    \/ calculate_vendor_score(c, pincode) < calculate_vendor_score(b, pincode)
    \/ /\ calculate_vendor_score(c, pincode) = calculate_vendor_score(b, pincode)
       /\ \/ vendors[c].completed_jobs < vendors[b].completed_jobs
          \/ /\ vendors[c].completed_jobs = vendors[b].completed_jobs
             /\ b < c

\* C20: the vendor an allocation returns is the same for every order of the
\* candidate list: it is preferred to every other candidate by score, then
\* by the larger number of completed jobs, then by the smaller id.
C20_AllocationOrderIndependent ==
    \A i \in 1..Len(allocation.vendors) :
        allocation.vendors[i] # allocation.best
           => Preferred(allocation.best, allocation.vendors[i],
                        allocation.pincode)

\* C21: a vendor that create_booking assigns by itself (the request names no
\* vendor) is, in the state the selection reads, approved, available and
\* offers the service of the booking.
C21_AutoAssignedIsEligible ==
    [][\A s \in Slots :
          (/\ Arrives(s, "create_booking")
           /\ slots'[s].resp = "created"
           /\ slots'[s].vendor = NULL
           /\ bookings'[slots'[s].bid].vendor_id # NULL)
             => LET v == bookings'[slots'[s].bid].vendor_id
                IN  /\ v \in VendorIds
                    /\ vendors[v].onboarding_status = "approved"
                    /\ vendors[v].availability
                    /\ "Plumbing" \in vendors[v].services]_vars

\* vendor 6 was assigned by create_booking while vendor 3, first in the
\* collection and serving the pincode, is unavailable
C21_Witness ==
    \E s \in Slots :
        /\ slots[s].op = "create_booking"
        /\ slots[s].resp = "created"
        /\ slots[s].vendor = NULL
        /\ bookings[slots[s].bid].vendor_id = 6
        /\ vendors[3].onboarding_status = "approved"
        /\ ~vendors[3].availability

\* C30: once the vendor's complete_booking has run for both of its bookings,
\* also when the two requests overlap, the vendor's earnings are the earnings
\* before plus the amounts of the two bookings.
C30_EarningsNotLost ==
    (/\ \A s \in Slots : slots[s].pc = "idle"
     /\ \A b \in AllBookingIds : bookings[b].status = STATUS_COMPLETED)
        => vendors[6].earnings
              = 100 + bookings[101].amount + bookings[102].amount

\* ======================================================================
\* notification dispatch failures
\*
\* Notification.create (an insert_one) and socketio.emit stand inside the
\* handlers' outer try, after the booking write: when one of them raises, the
\* except clause of the handler answers 500 and the write stays.
\* ======================================================================

\* Booking.update_status has succeeded, the customer was found, and the
\* dispatch raises
StatusWriteRaises(s, status) ==
    LET bid == slots[s].bid
        old == bookings[bid]
        new == [old EXCEPT !.status = status]
    IN  /\ TRUE \in Modified(old, new)
        /\ UserExists(old.customer_id)
        /\ bookings' = BookingUpdate(bid, new)
        /\ notifications' = notifications
        /\ slots' = [slots EXCEPT ![s] = Respond(slots[s], "error")]
        /\ UNCHANGED <<now, signatures, sweeps, nreq, nsweep>>
        /\ UNCHANGED <<vendors, audit_logs, allocation>>

accept_booking_write_raises(s) ==
    /\ At(s, "accept_booking", "write")
    /\ StatusWriteRaises(s, STATUS_ACCEPTED)

reject_booking_write_raises(s) ==
    /\ At(s, "reject_booking", "write")
    /\ StatusWriteRaises(s, STATUS_REJECTED)

complete_booking_earnings_raises(s) ==
    /\ At(s, "complete_booking", "earnings")
    /\ UserExists(bookings[slots[s].bid].customer_id)
    /\ vendors' = [vendors EXCEPT ![slots[s].vendor].earnings =
                       slots[s].earnings + bookings[slots[s].bid].amount]
    /\ slots' = [slots EXCEPT ![s] = Respond(slots[s], "error")]
    /\ UNCHANGED <<now, bookings, signatures, notifications, sweeps>>
    /\ UNCHANGED <<nreq, nsweep, audit_logs, allocation>>

complete_and_request_signature_request_raises(s) ==
    /\ At(s, "complete_and_request_signature", "request")
    /\ LET bid == slots[s].bid
           old == bookings[bid]
           new == RequestSignature(old, SIGNATURE_TIMEOUT_HOURS)
       IN  /\ TRUE \in Modified(old, new)
           /\ UserExists(old.customer_id)
           /\ bookings' = BookingUpdate(bid, new)
    /\ slots' = [slots EXCEPT ![s] = Respond(slots[s], "error")]
    /\ UNCHANGED <<now, signatures, notifications, sweeps, nreq, nsweep>>
    /\ UNCHANGED <<vendors, audit_logs, allocation>>

submit_signature_write_raises(s) ==
    /\ At(s, "submit_signature", "write")
    /\ LET bid == slots[s].bid
           old == bookings[bid]
           new == SubmitSignature(old, slots[s].hash)
       IN  /\ TRUE \in Modified(old, new)
           /\ UserExists(old.vendor_id)
           /\ bookings' = BookingUpdate(bid, new)
    /\ slots' = [slots EXCEPT ![s] = Respond(slots[s], "error")]
    /\ UNCHANGED <<now, signatures, notifications, sweeps, nreq, nsweep>>
    /\ UNCHANGED <<vendors, audit_logs, allocation>>

sign_booking_write_raises(s) ==
    /\ At(s, "sign_booking", "write")
    /\ LET bid == slots[s].bid
           old == bookings[bid]
       IN  bookings' = BookingUpdate(bid,
               [old EXCEPT !.signature_status = "signed",
                           !.signature_hash = slots[s].hash,
                           !.status = STATUS_VERIFIED])
    /\ slots' = [slots EXCEPT ![s] = Respond(slots[s], "error")]
    /\ UNCHANGED <<now, signatures, notifications, sweeps, nreq, nsweep>>
    /\ UNCHANGED <<vendors, audit_logs, allocation>>

\* a dispatch of request s raises in this step; that of start_booking raises
\* in every run, for it names Notification.TYPE_BOOKING_STARTED, which the
\* class does not define
DispatchRaises(s) ==
    \/ accept_booking_write_raises(s)
    \/ reject_booking_write_raises(s)
    \/ start_booking_write(s) /\ slots'[s].resp = "error"
    \/ complete_booking_earnings_raises(s)
    \/ complete_and_request_signature_request_raises(s)
    \/ submit_signature_write_raises(s)
    \/ sign_booking_write_raises(s)

\* the seven operations of a booking's life, each with a dispatch that may
\* raise
Dispatch ==
    \E s \in Slots :
        \/ Return(s)
        \/ create_booking(s)
        \/ accept_booking(s) \/ accept_booking_write(s)
        \/ accept_booking_write_raises(s)
        \/ reject_booking(s) \/ reject_booking_write(s)
        \/ reject_booking_write_raises(s)
        \/ start_booking(s) \/ start_booking_write(s)
        \/ complete_booking(s) \/ complete_booking_write(s)
        \/ complete_booking_earnings(s)
        \/ complete_booking_earnings_raises(s)
        \/ complete_and_request_signature(s)
        \/ complete_and_request_signature_write(s)
        \/ complete_and_request_signature_request(s)
        \/ complete_and_request_signature_request_raises(s)
        \/ submit_signature(s) \/ submit_signature_create(s)
        \/ submit_signature_write(s) \/ submit_signature_write_raises(s)
        \/ sign_booking(s) \/ sign_booking_create(s)
        \/ sign_booking_write(s) \/ sign_booking_write_raises(s)

SpecDispatch == Init /\ [][Dispatch]_vars

\* C22: when the dispatch of a notification fails after the booking update
\* of accept_booking, reject_booking, start_booking, complete_booking,
\* complete_and_request_signature, submit_signature or sign_booking has been
\* written, the operation does not answer its caller with a failure.
C22_DispatchFailureNotReported ==
    [][\A s \in Slots :
        DispatchRaises(s) => slots'[s].resp \in {"ok", "signed"}]_vars

\* the three approval flags of a vendor document agree
FlagsEqual(v) ==
    /\ v.is_approved = v.documents_verified
    /\ v.documents_verified = v.payouts_enabled

\* C23: whatever verify_profile, approve_vendor and reject_vendor calls have
\* run, each vendor's is_approved, documents_verified and payouts_enabled are
\* equal; they are false until an approve_vendor writes them, and all true
\* after that write. create_custom_service lets the caller pass if and only
\* if the is_approved it reads is true; otherwise it answers 403 and the
\* vendor documents stay as they are, and only a request that passed creates
\* a service.
C23_ApprovalGate ==
    [][/\ \A v \in VendorIds :
            /\ FlagsEqual(vendors[v]) /\ FlagsEqual(vendors'[v])
            /\ (~vendors[v].is_approved /\ vendors'[v].is_approved)
                  => \E s \in Slots : /\ slots[s].op = "approve_vendor"
                                      /\ slots[s].pc = "write"
                                      /\ slots[s].vendor = v
                                      /\ slots'[s].resp = "ok"
       /\ \A s \in Slots :
            /\ (slots[s].op = "approve_vendor" /\ slots[s].pc = "write"
                    /\ slots'[s].pc = "done")
                  => /\ vendors'[slots[s].vendor].is_approved
                     /\ vendors'[slots[s].vendor].documents_verified
                     /\ vendors'[slots[s].vendor].payouts_enabled
            /\ (slots[s].pc = "idle"
                    /\ slots'[s].op = "create_custom_service"
                    /\ VendorFindByUserId(slots'[s].uid) # NULL)
                  => LET vendor == VendorFindByUserId(slots'[s].uid)
                     IN  IF vendors[vendor].is_approved
                         THEN slots'[s].resp # "forbidden"
                         ELSE /\ slots'[s].resp = "forbidden"
                              /\ vendors' = vendors
            /\ slots'[s].resp = "service_created"
                  => /\ slots[s].op = "create_custom_service"
                     /\ slots[s].pc = "write"
                     /\ vendors'[slots[s].vendor].custom_services
                            = vendors[slots[s].vendor].custom_services + 1]_vars

\* a vendor whom approve_vendor approved has created a custom service
C23_Witness ==
    \E s \in Slots :
        /\ slots[s].op = "create_custom_service"
        /\ slots[s].resp = "service_created"
        /\ vendors[slots[s].vendor].onboarding_status = "active"
        /\ vendors[slots[s].vendor].is_approved
        /\ vendors[slots[s].vendor].documents_verified
        /\ vendors[slots[s].vendor].payouts_enabled
        /\ vendors[slots[s].vendor].custom_services = 1

\* the moves of signature_status that the signature axis has
SignatureMoves ==
    {<<"unsigned", "requested">>, <<"requested", "requested">>,
     <<"unsigned", "signed">>, <<"requested", "signed">>,
     <<"requested", "expired">>}

TickInSweep ==
    /\ \E w \in Sweeps : sweeps[w].pc # "idle"
    /\ now < MaxPeriods
    /\ now' = now + Hours(6)
    /\ UNCHANGED <<bookings, signatures, notifications, slots, sweeps, nreq, nsweep>>
    /\ UNCHANGED <<vendors, audit_logs, allocation>>

\* run_signature_monitor, twice at a time, with a clock that does not wait
\* for it
Sweep ==
    \/ TickSixHours
    \/ TickInSweep
    \/ \E w \in Sweeps :
        \/ SweepStart(w) \/ SweepEscalate(w) \/ SweepEscalateRaises(w)
        \/ SweepReturn(w)
        \/ ReminderFindRecent(w) \/ ReminderNotify(w)
        \/ ReminderNotifyRaises(w) \/ ReminderReturn(w)

\* The store of InitMonitor, but the signature of booking 102 was requested
\* twelve hours after that of booking 101.
InitSweep ==
    /\ now = 0
    /\ bookings =
          [b \in AllBookingIds |->
              IF b = 101 THEN RequestedBooking(101, 1)
              ELSE [RequestedBooking(102, 2)
                      EXCEPT !.signature_requested_at = Hours(12),
                             !.signature_timeout_at =
                                 Hours(12) + Hours(SIGNATURE_TIMEOUT_HOURS)]]
    /\ signatures = <<>>
    /\ notifications =
          SetToBag({[user_id |-> IF b = 101 THEN 1 ELSE 2,
                     type |-> "signature_required", booking_id |-> b]
                        : b \in AllBookingIds})
          (+) SetToBag({[user_id |-> 3, type |-> "booking_created",
                         booking_id |-> b] : b \in AllBookingIds})
    /\ slots = [s \in Slots |-> IdleSlot]
    /\ sweeps = [w \in Sweeps |-> IdleSweep]
    /\ nreq = 0
    /\ nsweep = 0
    /\ vendors = SuspendedVendors
    /\ audit_logs = EmptyBag
    /\ allocation = NoAllocation

SpecSweep == InitSweep /\ [][Sweep]_vars

\* the bookings with an escalation behind them: the flag, the status, a
\* notification or an audit entry
Escalated(b) ==
    \/ bookings[b].signature_escalated
    \/ bookings[b].signature_status = "expired"
    \/ \E n \in BagToSet(notifications) :
          n.type = "escalation" /\ n.booking_id = b
    \/ \E a \in BagToSet(audit_logs) :
          a.action = "escalation" /\ a.entity_id = b

\* C26: in one invocation of the sweep no booking gets an escalation and a
\* reminder, although each pass reads the clock for itself: the reminder pass
\* follows the escalation pass, the bookings its query selects have no
\* escalation behind them, and once the reminder pass has begun the
\* invocation escalates nothing.
C26_EscalationExcludesReminder ==
    [][\A w \in Sweeps :
        /\ (sweeps[w].pc \in {"idle", "loop"} /\ sweeps'[w].pc = "remind")
              => \A b \in AllBookingIds :
                    (\E i \in 1..Len(sweeps'[w].todo) :
                        sweeps'[w].todo[i] = b) => ~Escalated(b)'
        /\ sweeps[w].pc \in {"remind", "notify"}
              => /\ sweeps'[w].pc \in {"remind", "notify", "idle"}
                 /\ sweeps'[w] # sweeps[w]
                       => /\ bookings' = bookings
                          /\ audit_logs' = audit_logs
        /\ notifications' # notifications /\ sweeps'[w] # sweeps[w]
              => \/ /\ sweeps[w].pc = "loop"
                    /\ \A n \in BagToSet(notifications') \ BagToSet(notifications) :
                          n.type = "escalation"
                              /\ n.booking_id = Head(sweeps[w].todo)
                 \/ /\ sweeps[w].pc = "notify"
                    /\ \A n \in BagToSet(notifications') \ BagToSet(notifications) :
                          n.type = "signature_reminder"
                              /\ n.booking_id = Head(sweeps[w].todo)]_vars

\* the only invocation that has found anything so far has escalated booking
\* 101 and is in its reminder pass with booking 102, whose window is still
\* open
C26_Witness ==
    \E w \in Sweeps :
        /\ nsweep = 1
        /\ \A w2 \in Sweeps \ {w} : sweeps[w2].pc = "idle"
        /\ sweeps[w].pc = "notify"
        /\ \E n \in BagToSet(notifications) :
              n.type = "escalation" /\ n.booking_id = 101
        /\ Head(sweeps[w].todo) = 102
        /\ ~Escalated(102)

\* the rule that create_booking applies to a vendor the customer chose: a
\* vendor with no pincodes listed serves every pincode
ServesPincode(v, pincode) ==
    vendors[v].pincodes = {} \/ pincode \in vendors[v].pincodes

\* C27: in auto-allocation an approved, available vendor that offers the
\* service is a candidate when its pincode list is empty or contains the
\* pincode of the booking: create_booking without a vendor_id assigns a
\* vendor whenever there is such a vendor, and the vendor it assigns is one.
C27_EmptyPincodeListEligible ==
    [][\A s \in Slots :
        (/\ slots[s].pc = "idle"
         /\ slots'[s].op = "create_booking"
         /\ slots'[s].resp = "created"
         /\ slots'[s].vendor = NULL)
          => LET assigned == bookings'[slots'[s].bid].vendor_id
                 eligible ==
                     {v \in VendorIds :
                         /\ vendors[v].onboarding_status = "approved"
                         /\ vendors[v].availability
                         /\ "Plumbing" \in vendors[v].services
                         /\ ServesPincode(v, slots'[s].pincode)}
             IN  IF eligible = {} THEN assigned = NULL
                 ELSE assigned \in eligible]_vars

\* C28: complete_and_request_signature takes as the owner of a booking the
\* caller that accept_booking, start_booking and complete_booking take: the
\* user whose vendor profile is the booking's vendor_id. On an existing
\* booking that is accepted or in progress it lets that caller pass, so the
\* vendor of an accepted booking can open its signature window, and it
\* answers 'Access denied' to every other caller.
C28_OwnerAsInAcceptBooking ==
    [][\A s \in Slots :
        (/\ slots[s].pc = "idle"
         /\ slots'[s].op = "complete_and_request_signature"
         /\ bookings[slots'[s].bid].exists
         /\ bookings[slots'[s].bid].status
                \in {STATUS_ACCEPTED, STATUS_IN_PROGRESS})
          => LET booking == bookings[slots'[s].bid]
                 owner   == booking.vendor_id # NULL
                            /\ VendorFindByUserId(slots'[s].uid)
                                   = booking.vendor_id
             IN  IF owner THEN slots'[s].pc = "write"
                 ELSE slots'[s].resp = "forbidden"]_vars

\* C29: the status that approve_vendor writes is the status the eligibility
\* checks ask for: right after approve_vendor has succeeded for a vendor who
\* is available and offers the service in the pincode,
\* find_available_by_service returns that vendor and the vendor passes the
\* checks of create_booking and of create_booking_with_vendor.
C29_ApprovedVendorIsEligible ==
    [][\A s \in Slots, v \in VendorIds :
        (/\ slots[s].op = "approve_vendor"
         /\ slots[s].pc = "write"
         /\ slots[s].vendor = v
         /\ slots'[s].resp = "ok"
         /\ vendors'[v].availability
         /\ "Plumbing" \in vendors'[v].services
         /\ Pin560001 \in vendors'[v].pincodes)
          => (/\ \E i \in 1..Len(FindAvailableByService("Plumbing", Pin560001)) :
                    FindAvailableByService("Plumbing", Pin560001)[i] = v
              /\ CreateBookingChecks("svc1", Pin560001, v).error = "none"
              /\ CreateBookingWithVendorChecks("svc1", Pin560001, v).error
                    = "none")']_vars

====
